---- MODULE Spec2Model ----
(***************************************************************************)
(* Model of the synchronisation engine (notion_sync.py), the webhook        *)
(* ingestion that feeds it (telegram_bot.py) and the backup engine          *)
(* (backup_database.py) of the Telegram-to-Notion message archiver.         *)
(***************************************************************************)
EXTENDS Integers, Sequences, FiniteSets, TLC

(* ---------------------------- model bounds ----------------------------- *)
MaxMessages == 2      \* rows the webhook may store
MaxFaults == 1        \* failing external calls / crashes over a behaviour
MaxLog == 3           \* SyncStatus rows kept by the model
MaxTs == 3            \* message timestamps range over 0..MaxTs
TicksPerDay == 2      \* timestamps per calendar date
DaysPerMonth == 2     \* calendar dates per month
MaxDaily == 9         \* daily snapshots in the store at the start
MaxWeekly == 5        \* weekly snapshots in the store at the start
MaxMonthly == 4       \* monthly snapshots in the store at the start
MaxBackupRuns == 1    \* perform_backup calls over a behaviour
FirstBackupDay == 151 \* 2024-05-31, first day a modelled backup may run
LastBackupDay == 154  \* 2024-06-03, last day a modelled backup may run
MaxAhead == 13        \* snapshots dated on the run days or after them
MaxRestoreRuns == 1   \* interactive_restore sessions over a behaviour
MaxText == 4          \* characters of a formatted text

(* -------------------------- program constants -------------------------- *)
DAILY_RETENTION == 7
WEEKLY_RETENTION == 4
MONTHLY_RETENTION == 3
MinBackupSize == 1000

NULL == "NULL"
NoPage == 0
Runs == {"job", "manual"}
TextVals == {NULL, "TEXT"}
Timestamps == 0..MaxTs

VARIABLES
    messages,   \* TelegramMessage table, committed rows, indexed by row id
    sync_log,   \* SyncStatus table, committed rows, oldest first
    env,        \* NOTION_INTEGRATION_SECRET / NOTION_PAGE_ID set or not
    dbs,        \* workspace: child databases of the root page
    pages,      \* workspace: daily pages
    run,        \* locals and ORM session of each sync_messages_to_notion call
    faults,     \* failed calls of the sync and backup engines, crashes
    STORAGE_CLIENT, \* the object storage client exists
    objects,    \* object storage: key -> size in bytes of the stored object
    bk,         \* locals, steps and result of the last perform_backup call
    contents,   \* object storage: key -> what the stored bytes are
    live_db,    \* the live PostgreSQL database: intact, dropped, empty, ...
    rs,         \* prompts, locals and steps of the interactive_restore run
    fmt         \* text and rich-text spans of the last formatter call

syncvars == <<messages, sync_log, env, dbs, pages, run>>
backupvars == <<STORAGE_CLIENT, objects, bk>>
toolvars == <<contents, live_db, rs, fmt>>
vars == <<messages, sync_log, env, dbs, pages, run, faults,
          STORAGE_CLIENT, objects, bk, contents, live_db, rs, fmt>>

(* ------------------------------ helpers -------------------------------- *)
Min(a, b) == IF a < b THEN a ELSE b

Range(s) == {s[i] : i \in DOMAIN s}

Last(s) == s[Len(s)]

\* message.timestamp.date()
DateOf(ts) == ts \div TicksPerDay

\* date.year / date.month, the key of the monthly database title
MonthOf(d) == d \div DaysPerMonth

\* TelegramMessage.has_media()
has_media(m) == m.media_type # NULL /\ m.media_stored_path # NULL

\* format_message_for_notion raises (TypeError in re.search) exactly when it
\* reaches the plain-text branch with text = None
FormatRaises(m) ==
    /\ ~(has_media(m) /\ m.media_type \in {"image", "document", "video", "audio"})
    /\ m.text = NULL

\* blocks returned for one message: an image gives [paragraph, image]
FormatBlocks(i, m) ==
    IF has_media(m) /\ m.media_type = "image"
    THEN <<[msg |-> i, type |-> "paragraph"], [msg |-> i, type |-> "image"]>>
    ELSE <<[msg |-> i, type |-> "paragraph"]>>

\* the query without its filter
UnsyncedIds_NoFilter == DOMAIN messages

\* TelegramMessage.query.filter_by(synced=False)
UnsyncedIds == {i \in DOMAIN messages : ~messages[i].synced}

\* the query without order_by: the unsynced rows in any order
OrderedUnsynced_NoOrderBy ==
    LET S == UnsyncedIds
        n == Cardinality(S)
    IN  {s \in [1..n -> S] : \A i, j \in 1..n : i < j => s[i] # s[j]}

\* .order_by(TelegramMessage.timestamp).all(): any order of the unsynced rows
\* that is ascending in timestamp (rows of equal timestamp in any order)
OrderedUnsynced ==
    LET S == UnsyncedIds
        n == Cardinality(S)
    IN  {s \in [1..n -> S] :
            \A i, j \in 1..n : i < j =>
                /\ s[i] # s[j]
                /\ messages[s[i]].ts <= messages[s[j]].ts}

\* keys of messages_by_date in insertion order
RECURSIVE DateKeys(_)
DateKeys(s) ==
    IF s = <<>> THEN <<>>
    ELSE LET d == DateOf(messages[Head(s)].ts)
         IN  <<d>> \o SelectSeq(DateKeys(Tail(s)), LAMBDA x : x # d)

\* messages_by_date[d]
GroupOf(s, d) == SelectSeq(s, LAMBDA i : DateOf(messages[i].ts) = d)

RECURSIVE BlocksOf(_)
BlocksOf(s) ==
    IF s = <<>> THEN <<>>
    ELSE FormatBlocks(Head(s), messages[Head(s)]) \o BlocksOf(Tail(s))

\* db.session.add(sync_status); the model keeps the newest MaxLog rows
AddStatus(n, ok, err) ==
    LET rec == [messages_synced |-> n, success |-> ok, error_message |-> err]
    IN  IF Len(sync_log) < MaxLog THEN Append(sync_log, rec)
        ELSE Append(Tail(sync_log), rec)

IdleRun ==
    [pc |-> "idle", result |-> "none", unsynced |-> <<>>, dates |-> <<>>,
     g |-> 0, page |-> NoPage, current_count |-> 0, staged |-> {},
     total_synced |-> 0, start_msgs |-> <<>>, start_dbs |-> 0,
     start_pages |-> 0, ok_dates |-> {},
     failed_dates |-> {}, calls |-> {}]

(* ------------------------------- Init ---------------------------------- *)
IdleBackup ==
    [runs |-> 0, today |-> 0, steps |-> <<>>, backup_type |-> NULL,
     key |-> [prefix |-> NULL, date |-> 0, tier |-> NULL],
     size |-> 0, dumped |-> FALSE, uploaded |-> FALSE,
     downloaded |-> FALSE, listing_ok |-> FALSE, listed |-> {},
     to_delete |-> <<>>, deleted |-> {}, delete_failed |-> {},
     before |-> <<>>, result |-> FALSE]

\* no bytes: what download_backup returns when it fails
NoData ==
    [gz |-> FALSE, format |-> NULL, rows |-> <<>>, taken_of |-> <<>>,
     producer |-> NULL]

NoEntry == [index |-> 0 - 1, path |-> IdleBackup.key]

NotRun ==
    [terminate |-> "not_run", drop |-> "not_run", create |-> "not_run",
     replay |-> "not_run"]

IdleRestore ==
    [runs |-> 0, pc |-> "idle", outcome |-> "none", proceed |-> NULL,
     selection |-> NULL, confirm |-> NULL, backups |-> <<>>,
     selected |-> NoEntry, data |-> NoData, called |-> FALSE,
     steps |-> <<>>, rc |-> NotRun, result |-> FALSE]

IdleFormat == [called |-> FALSE, text |-> <<>>, spans |-> <<>>]

\* the live database is up, no restore and no formatter call has been made
ToolInit ==
    /\ live_db = "intact"
    /\ rs = IdleRestore
    /\ fmt = IdleFormat

SyncInit ==
    /\ messages = <<>>
    /\ sync_log = <<>>
    /\ dbs = <<>>
    /\ pages = <<>>
    /\ run = [r \in Runs |-> IdleRun]
    /\ faults = 0

\* the sync engine started on an empty message store; no backup has run
Init ==
    /\ SyncInit
    /\ env \in [secret : BOOLEAN, page_id : BOOLEAN]
    /\ STORAGE_CLIENT = TRUE
    /\ objects = <<>>
    /\ bk = IdleBackup
    /\ contents = <<>>
    /\ ToolInit

(* ------------------------ webhook ingestion ---------------------------- *)
\* handle_telegram_update: a text message (is_media = FALSE) or a media
\* message whose caption is text and whose download either succeeded
\* (media_type and stored path set) or failed (both left NULL); a message
\* with neither text nor media is answered without storing anything
Ingest(ts, text, is_media, saved) ==
    /\ Len(messages) < MaxMessages
    /\ ~(text = NULL /\ ~is_media)
    /\ is_media \/ saved
    /\ messages' = Append(messages,
          [ts |-> ts, text |-> text,
           media_type |-> IF is_media /\ saved THEN "image" ELSE NULL,
           media_stored_path |-> IF is_media /\ saved THEN "path" ELSE NULL,
           synced |-> FALSE, notion_page_id |-> NoPage])
    /\ UNCHANGED <<sync_log, env, dbs, pages, run, faults, backupvars, toolvars>>

(* --------------------------- sync engine ------------------------------- *)
\* number of FALSE entries of a tuple of call outcomes
RECURSIVE Failed(_)
Failed(oks) ==
    IF oks = <<>> THEN 0
    ELSE (IF Head(oks) THEN 0 ELSE 1) + Failed(Tail(oks))

\* the validation failure recorded with the column default of success
Finish_DefaultSuccess(r, result, n, ok, err, calls) ==
    /\ sync_log' = AddStatus(n, TRUE, err)
    /\ run' = [run EXCEPT ![r] =
          [IdleRun EXCEPT !.result = result, !.start_msgs = messages, !.start_dbs = Len(dbs),
                          !.start_pages = Len(pages),
                          !.calls = calls]]

\* the three validation failures and the empty fetch: one SyncStatus, return
Finish(r, result, n, ok, err, calls) ==
    /\ sync_log' = AddStatus(n, ok, err)
    /\ run' = [run EXCEPT ![r] =
          [IdleRun EXCEPT !.result = result, !.start_msgs = messages, !.start_dbs = Len(dbs),
                          !.start_pages = Len(pages),
                          !.calls = calls]]

\* the flush that sets the flag and leaves the page reference out
Flush_NoPageRef(staged) ==
    [i \in DOMAIN messages |->
        IF \E e \in staged : e.id = i
        THEN [messages[i] EXCEPT !.synced = TRUE]
        ELSE messages[i]]

\* rows as the session would write them: staged is the set of rows whose
\* synced / notion_page_id attributes were assigned in the session
Flush(staged) ==
    [i \in DOMAIN messages |->
        IF \E e \in staged : e.id = i
        THEN [messages[i] EXCEPT !.synced = TRUE,
                !.notion_page_id = (CHOOSE e \in staged : e.id = i).page]
        ELSE messages[i]]

\* the outer except branch, entered before the session was committed: add a
\* failed SyncStatus and commit the session, which also writes whatever the
\* session had staged; if that commit raises, the session is rolled back and
\* the exception leaves the function
Handler(r, staged, h_ok, err, nr) ==
    /\ IF h_ok
       THEN /\ messages' = Flush(staged)
            /\ sync_log' = AddStatus(0, FALSE, err)
       ELSE UNCHANGED <<messages, sync_log>>
    /\ run' = [run EXCEPT ![r] =
          [nr EXCEPT !.pc = "idle", !.staged = {},
                     !.result = IF h_ok THEN "aborted" ELSE "aborted_raised"]]

\* sync_messages_to_notion up to the grouping of the fetched messages
SyncStart(r, root_ok, fetch_ok, h_ok) ==
    /\ run[r].pc = "idle"
    /\ IF ~env.secret
       THEN /\ root_ok /\ fetch_ok /\ h_ok
            /\ Finish(r, "no_client", 0, FALSE, "client", {})
            /\ UNCHANGED <<messages, faults>>
       ELSE IF ~env.page_id
       THEN /\ root_ok /\ fetch_ok /\ h_ok
            /\ Finish(r, "no_page_id", 0, FALSE, "page_id", {})
            /\ UNCHANGED <<messages, faults>>
       ELSE IF ~root_ok
       THEN /\ fetch_ok /\ h_ok
            /\ faults < MaxFaults
            /\ faults' = faults + 1
            /\ Finish(r, "no_root", 0, FALSE, "root", {"pages.retrieve"})
            /\ UNCHANGED messages
       ELSE IF ~fetch_ok
       THEN \* the query raises: the outer except branch
            /\ faults' = faults + Failed(<<fetch_ok, h_ok>>)
            /\ faults' <= MaxFaults
            /\ Handler(r, {}, h_ok, "query",
                  [IdleRun EXCEPT !.start_msgs = messages, !.start_dbs = Len(dbs),
                          !.start_pages = Len(pages),
                                  !.calls = {"pages.retrieve"}])
       ELSE /\ h_ok
            /\ UNCHANGED <<messages, faults>>
            /\ \E s \in OrderedUnsynced :
                 IF s = <<>>
                 THEN Finish(r, "empty", 0, TRUE, NULL, {"pages.retrieve"})
                 ELSE /\ run' = [run EXCEPT ![r] =
                            [IdleRun EXCEPT !.pc = "group", !.unsynced = s,
                                !.dates = DateKeys(s), !.g = 1,
                                !.start_msgs = messages, !.start_dbs = Len(dbs),
                          !.start_pages = Len(pages),
                                !.calls = {"pages.retrieve"}]]
                      /\ UNCHANGED sync_log
    /\ UNCHANGED <<env, dbs, pages, backupvars, toolvars>>

\* break instead of continue: the loop is left after the current group
NextGroup_Break(rr) ==
    [rr EXCEPT !.pc = "commit", !.page = NoPage, !.current_count = 0]

\* continue: next key of messages_by_date, or leave the loop
NextGroup(rr) ==
    IF rr.g < Len(rr.dates)
    THEN [rr EXCEPT !.pc = "group", !.g = rr.g + 1, !.page = NoPage,
                    !.current_count = 0]
    ELSE [rr EXCEPT !.pc = "commit", !.page = NoPage, !.current_count = 0]

\* one pass of the loop body up to blocks.children.append: find or create
\* the monthly database, find or create the daily page, format, append
SyncResolveAppend(r, search_ok, create_db_ok, query_ok, create_page_ok, append_ok, h_ok) ==
    /\ run[r].pc = "group"
    /\ LET rr == run[r]
           d == rr.dates[rr.g]
           ms == GroupOf(rr.unsynced, d)
           title == MonthOf(d)
           hits == {i \in DOMAIN dbs : dbs[i].title = title}
           found_db == IF search_ok /\ hits # {}
                       THEN CHOOSE i \in hits : \A j \in hits : i <= j
                       ELSE 0
           make_db == found_db = 0
           dbs1 == IF make_db /\ create_db_ok
                   THEN Append(dbs, [title |-> title]) ELSE dbs
           monthly_db_id == IF found_db # 0 THEN found_db
                            ELSE IF create_db_ok THEN Len(dbs1) ELSE 0
           have_db == monthly_db_id # 0
           matches == {p \in DOMAIN pages :
                         pages[p].db = monthly_db_id /\ pages[p].date = d}
           raises == \E k \in DOMAIN ms : FormatRaises(messages[ms[k]])
           calls1 == rr.calls \cup {"blocks.children.list"}
                       \cup (IF make_db THEN {"databases.create"} ELSE {})
                       \cup (IF have_db THEN {"databases.query"} ELSE {})
       IN
       /\ make_db \/ create_db_ok
       /\ have_db \/ (query_ok /\ create_page_ok /\ append_ok /\ h_ok)
       /\ dbs' = dbs1
       /\ IF ~have_db
          THEN /\ run' = [run EXCEPT ![r] = NextGroup(
                     [rr EXCEPT !.failed_dates = @ \cup {d}, !.calls = calls1])]
               /\ faults' = faults + Failed(<<search_ok, create_db_ok>>)
               /\ faults' <= MaxFaults
               /\ UNCHANGED <<messages, sync_log, pages>>
          ELSE \E found_page \in (IF query_ok /\ matches # {}
                                  THEN matches ELSE {NoPage}) :
            LET make_page == found_page = NoPage
                pages1 == IF make_page /\ create_page_ok
                          THEN Append(pages,
                                 [db |-> monthly_db_id, date |-> d, count |-> 0,
                                  status |-> "Pending", blocks |-> <<>>])
                          ELSE pages
                daily_page_id == IF found_page # NoPage THEN found_page
                                 ELSE IF create_page_ok THEN Len(pages1)
                                 ELSE NoPage
                have_page == daily_page_id # NoPage
                do_append == have_page /\ ~raises
                calls2 == calls1
                       \cup (IF make_page THEN {"pages.create"} ELSE {})
                       \cup (IF do_append THEN {"blocks.children.append"}
                             ELSE {})
                nfail == Failed(<<search_ok, create_db_ok, query_ok,
                                  create_page_ok, append_ok, h_ok>>)
            IN
            /\ make_page \/ create_page_ok
            /\ do_append \/ append_ok
            /\ (have_page /\ raises) \/ h_ok
            /\ faults' = faults + nfail
            /\ faults' <= MaxFaults
            /\ IF ~have_page
               THEN /\ pages' = pages1
                    /\ run' = [run EXCEPT ![r] = NextGroup(
                          [rr EXCEPT !.failed_dates = @ \cup {d},
                                     !.calls = calls2])]
                    /\ UNCHANGED <<messages, sync_log>>
               ELSE IF raises
               THEN /\ pages' = pages1
                    /\ Handler(r, rr.staged, h_ok, "format",
                          [rr EXCEPT !.calls = calls2])
               ELSE IF ~append_ok
               THEN /\ pages' = pages1
                    /\ run' = [run EXCEPT ![r] = NextGroup(
                          [rr EXCEPT !.failed_dates = @ \cup {d},
                                     !.calls = calls2])]
                    /\ UNCHANGED <<messages, sync_log>>
               ELSE /\ pages' = [pages1 EXCEPT ![daily_page_id].blocks =
                                    @ \o BlocksOf(ms)]
                    /\ run' = [run EXCEPT ![r] =
                          [rr EXCEPT !.pc = "read_count",
                                     !.page = daily_page_id,
                                     !.calls = calls2]]
                    /\ UNCHANGED <<messages, sync_log>>
    /\ UNCHANGED <<env, backupvars, toolvars>>

\* pages.retrieve of the daily page: the current Messages number, 0 when the
\* call fails
SyncReadCount(r, retrieve_ok) ==
    /\ run[r].pc = "read_count"
    /\ faults' = faults + Failed(<<retrieve_ok>>)
    /\ faults' <= MaxFaults
    /\ run' = [run EXCEPT ![r] =
          [@ EXCEPT !.pc = "update",
                    !.current_count = IF retrieve_ok
                                      THEN pages[run[r].page].count ELSE 0]]
    /\ UNCHANGED <<messages, sync_log, env, dbs, pages, backupvars, toolvars>>

\* the running total set to the size of the last group
MarkSynced_LastGroup(rr, ms, d) ==
    [rr EXCEPT
       !.staged = @ \cup {[id |-> ms[k], page |-> rr.page] : k \in DOMAIN ms},
       !.total_synced = Len(ms),
       !.ok_dates = @ \cup {d}]

\* message.synced = True and message.notion_page_id = daily_page_id for the
\* messages ms of date d, in the session; total_synced += len(messages)
MarkSynced(rr, ms, d) ==
    [rr EXCEPT
       !.staged = @ \cup {[id |-> ms[k], page |-> rr.page] : k \in DOMAIN ms},
       !.total_synced = @ + Len(ms),
       !.ok_dates = @ \cup {d}]

\* an increment applied to the number the page holds at the time of the write
new_count_Atomic(current_count, page_count, n) == page_count + n

\* new_count = current_count + len(messages): the number read earlier by this
\* run plus the size of the group, whatever the page holds by now
new_count(current_count, page_count, n) == current_count + n

\* pages.update with the incremented count, then mark the group's messages
\* synced in the session
SyncUpdateCount(r, update_ok) ==
    /\ run[r].pc = "update"
    /\ faults' = faults + Failed(<<update_ok>>)
    /\ faults' <= MaxFaults
    /\ LET rr == run[r]
           d == rr.dates[rr.g]
           ms == GroupOf(rr.unsynced, d)
           calls1 == rr.calls \cup {"pages.update"}
       IN  IF update_ok
           THEN /\ pages' = [pages EXCEPT ![rr.page] =
                      [@ EXCEPT !.count = new_count(rr.current_count,
                                                    pages[rr.page].count,
                                                    Len(ms)),
                                !.status = "Synced"]]
                /\ run' = [run EXCEPT ![r] = NextGroup(
                      [MarkSynced(rr, ms, d) EXCEPT !.calls = calls1])]
           ELSE /\ pages' = pages
                /\ run' = [run EXCEPT ![r] = NextGroup(
                      [rr EXCEPT !.failed_dates = @ \cup {d},
                                 !.calls = calls1])]
    /\ UNCHANGED <<messages, sync_log, env, dbs, backupvars, toolvars>>

\* after the loop: commit the session, add the SyncStatus, commit again
SyncCommit(r, c1_ok, c2_ok, h_ok) ==
    /\ run[r].pc = "commit"
    /\ c1_ok \/ c2_ok
    /\ (c1_ok /\ c2_ok) => h_ok
    /\ faults' = faults + Failed(<<c1_ok, c2_ok, h_ok>>)
    /\ faults' <= MaxFaults
    /\ LET rr == run[r]
       IN  IF c1_ok /\ c2_ok
           THEN /\ messages' = Flush(rr.staged)
                /\ sync_log' = AddStatus(rr.total_synced, TRUE, NULL)
                /\ run' = [run EXCEPT ![r] =
                      [rr EXCEPT !.pc = "idle", !.staged = {},
                                 !.result = "ok"]]
           ELSE IF c1_ok
           THEN \* the messages are committed, the status insert failed
                /\ messages' = Flush(rr.staged)
                /\ sync_log' = IF h_ok THEN AddStatus(0, FALSE, "commit")
                               ELSE sync_log
                /\ run' = [run EXCEPT ![r] =
                      [rr EXCEPT !.pc = "idle", !.staged = {},
                          !.result = IF h_ok THEN "status_failed"
                                     ELSE "status_raised"]]
           ELSE \* the session was rolled back by the failed commit
                Handler(r, {}, h_ok, "commit", rr)
    /\ UNCHANGED <<env, dbs, pages, backupvars, toolvars>>

\* the process dies in the middle of a run: the session is lost
Crash(r) ==
    /\ run[r].pc # "idle"
    /\ faults < MaxFaults
    /\ faults' = faults + 1
    /\ run' = [run EXCEPT ![r] =
          [@ EXCEPT !.pc = "idle", !.staged = {}, !.result = "crashed"]]
    /\ UNCHANGED <<messages, sync_log, env, dbs, pages, backupvars, toolvars>>

(* --------------------------- backup engine ----------------------------- *)
\* Dates are day numbers of 2024: 0 is 2024-01-01, a Monday.  strftime
\* "%Y-%m-%d" is fixed-width, so the order of the day numbers is the
\* lexicographic order of the date strings.
MonthLengths == <<31, 29, 31, 30, 31, 30, 31, 31, 30, 31, 30, 31>>

RECURSIVE DayInMonth(_, _)
DayInMonth(d, m) ==
    IF d < MonthLengths[m] THEN d + 1
    ELSE DayInMonth(d - MonthLengths[m], m + 1)

\* datetime.day
DayOfMonth(d) == DayInMonth(d, 1)

\* datetime.weekday(): Monday is 0, Sunday is 6
Weekday(d) == d % 7

Tiers == {"daily", "weekly", "monthly"}

\* the Sunday test placed before the test of the day of the month
determine_backup_type_SundayFirst(today) ==
    IF Weekday(today) = 6 THEN "weekly"
    ELSE IF DayOfMonth(today) = 1 THEN "monthly"
    ELSE "daily"

determine_backup_type(today) ==
    IF DayOfMonth(today) = 1 THEN "monthly"
    ELSE IF Weekday(today) = 6 THEN "weekly"
    ELSE "daily"

\* "backups/" + get_backup_filename(backup_type), with today's date
BackupKey(today, backup_type) ==
    [prefix |-> "backups/backup_", date |-> today, tier |-> backup_type]

\* objects of the shared storage that are no snapshots: a media file and a
\* backup uploaded by the storage tests under backups/test/
OtherKeys ==
    {[prefix |-> "media/", date |-> 0, tier |-> NULL],
     [prefix |-> "backups/test/", date |-> 0, tier |-> NULL]}

\* the suffix "_<tier>.sql.gz" in the order of Python's string comparison
TierRank(t) ==
    IF t = "daily" THEN 1 ELSE IF t = "monthly" THEN 2
    ELSE IF t = "weekly" THEN 3 ELSE 0

\* a < b as Python strings, for two keys of the same prefix
KeyLess(a, b) ==
    \/ a.date < b.date
    \/ a.date = b.date /\ TierRank(a.tier) < TierRank(b.tier)

\* list.sort() without reverse: oldest first
RECURSIVE SortAsc(_)
SortAsc(S) ==
    IF S = {} THEN <<>>
    ELSE LET low == CHOOSE k \in S : \A o \in S \ {k} : KeyLess(k, o)
         IN  <<low>> \o SortAsc(S \ {low})

\* list.sort(reverse=True)
RECURSIVE SortDesc(_)
SortDesc(S) ==
    IF S = {} THEN <<>>
    ELSE LET top == CHOOSE k \in S : \A o \in S \ {k} : KeyLess(o, k)
         IN  <<top>> \o SortDesc(S \ {top})

\* lst[:-n]: the newest are dropped from the list, the oldest n are kept
Drop_Head(lst, n) == IF Len(lst) > n THEN SubSeq(lst, 1, Len(lst) - n) ELSE <<>>

\* lst[n:]
Drop(lst, n) == IF Len(lst) > n THEN SubSeq(lst, n + 1, Len(lst)) ELSE <<>>

\* list_existing_backups: the keys starting with "backups/backup_", or [] when
\* listing raises
list_existing_backups(store, list_ok) ==
    IF list_ok
    THEN {k \in DOMAIN store : k.prefix = "backups/backup_"}
    ELSE {}

\* b for b in all_backups if "_<tier>." in b
OfTier(all_backups, t) == {k \in all_backups : k.tier = t}

\* one list of every listed key, whatever its tier, sorted oldest first
ToDelete_NoPartition(all_backups) == Drop(SortAsc(all_backups), DAILY_RETENTION)

\* the to_delete list of apply_retention_policy
ToDelete(all_backups) ==
    Drop(SortDesc(OfTier(all_backups, "daily")), DAILY_RETENTION)
      \o Drop(SortDesc(OfTier(all_backups, "weekly")), WEEKLY_RETENTION)
      \o Drop(SortDesc(OfTier(all_backups, "monthly")), MONTHLY_RETENTION)

\* STORAGE_CLIENT.upload_from_bytes
Upload(store, key, size) ==
    [k \in DOMAIN store \cup {key} |-> IF k = key THEN size ELSE store[k]]

\* STORAGE_CLIENT.delete of every key of a set
Delete(store, keys) == [k \in DOMAIN store \ keys |-> store[k]]

\* the size check with <= in place of <
verify_backup_AtMost(size) == ~(size <= MinBackupSize)

\* verify_backup after a successful download of size bytes
verify_backup(size) == ~(size < MinBackupSize)

DumpSizes == {500, 999, 1000, 50000}

\* create_db_backup: a gzip-compressed plain-SQL text of comments and INSERT
\* statements, no schema.  Each table is read with
\* cursor.execute("SELECT * FROM %s", (table_name,)), which binds the name as
\* a quoted string literal; the statement is a syntax error, the per-table
\* except branch writes a comment, and no row reaches the dump.  taken_of
\* remembers the rows the store held when the dump was made.
create_db_backup(rows) ==
    [gz |-> TRUE, format |-> "plain_sql", rows |-> <<>>, taken_of |-> rows,
     producer |-> "engine"]

\* an object that is no snapshot of the engine
OtherObject ==
    [gz |-> FALSE, format |-> "other", rows |-> <<>>, taken_of |-> <<>>,
     producer |-> "other"]

\* retention runs although verification failed
RunsRetention_Always(uploaded, verified) == uploaded

\* apply_retention_policy is reached only past the two returns that follow a
\* failed upload and a failed verification
RunsRetention(uploaded, verified) == uploaded /\ verified

\* perform_backup: the type from a first datetime.now(), the dump, the file
\* name from a second datetime.now() (midnight may pass in between), upload,
\* verify, retention.  dump is the size of the compressed dump, dump_ok is
\* FALSE when create_db_backup fails; the deletes of the keys in bad raise.
perform_backup(today, midnight, dump, dump_ok, upload_ok, download_ok, list_ok) ==
    LET backup_type == determine_backup_type(today)
        name_day == IF midnight THEN today + 1 ELSE today
        key == BackupKey(name_day, backup_type)
        dumped == dump_ok
        uploaded == dumped /\ STORAGE_CLIENT /\ upload_ok
        store1 == IF uploaded THEN Upload(objects, key, dump) ELSE objects
        verified == uploaded /\ download_ok /\ verify_backup(store1[key])
        retention == RunsRetention(uploaded, verified)
        all_backups == IF retention
                       THEN list_existing_backups(store1, list_ok) ELSE {}
        to_delete == ToDelete(all_backups)
        steps == <<"dump">>
                   \o (IF dumped THEN <<"upload">> ELSE <<>>)
                   \o (IF uploaded THEN <<"verify">> ELSE <<>>)
                   \o (IF retention THEN <<"retention">> ELSE <<>>)
    IN
    /\ bk.runs < MaxBackupRuns
    \* outcomes of calls that are not made are fixed
    /\ dumped \/ (~midnight /\ dump = 500)
    /\ (dumped /\ STORAGE_CLIENT) \/ upload_ok
    /\ uploaded \/ download_ok
    /\ verified \/ list_ok
    /\ \E bad \in SUBSET Range(to_delete) :
          /\ faults' = faults + Cardinality(bad)
                + Failed(<<dumped, upload_ok, download_ok, list_ok>>)
          /\ faults' <= MaxFaults
          /\ objects' = Delete(store1, Range(to_delete) \ bad)
          /\ contents' = [k \in DOMAIN objects' |->
                            IF uploaded /\ k = key
                            THEN create_db_backup(messages)
                            ELSE contents[k]]
          /\ bk' = [runs |-> bk.runs + 1, today |-> today, steps |-> steps,
                    backup_type |-> backup_type,
                    key |-> IF dumped THEN key ELSE IdleBackup.key,
                    size |-> IF dumped THEN dump ELSE 0,
                    dumped |-> dumped, uploaded |-> uploaded,
                    downloaded |-> uploaded /\ download_ok,
                    listing_ok |-> verified /\ list_ok,
                    listed |-> all_backups, to_delete |-> to_delete,
                    deleted |-> Range(to_delete) \ bad,
                    delete_failed |-> bad, before |-> store1,
                    result |-> verified]
    /\ UNCHANGED <<syncvars, STORAGE_CLIENT, live_db, rs, fmt>>

\* the n latest days up to day d on which the tier rule gives tier t
PastDays(t, n, d) ==
    LET days == {x \in 0..d : determine_backup_type(x) = t}
    IN  {x \in days : Cardinality({y \in days : y > x}) < n}

PastKeys(t, n) ==
    {BackupKey(d, t) : d \in PastDays(t, n, FirstBackupDay - 1)}

\* the store after earlier backups: some snapshots of each tier and the
\* non-snapshot objects
BackupInit ==
    /\ SyncInit
    /\ env = [secret |-> TRUE, page_id |-> TRUE]
    /\ STORAGE_CLIENT \in BOOLEAN
    /\ \E nd \in 0..MaxDaily, nw \in 0..MaxWeekly, nm \in 0..MaxMonthly :
          objects = [k \in PastKeys("daily", nd) \cup PastKeys("weekly", nw)
                             \cup PastKeys("monthly", nm) \cup OtherKeys
                        |-> 50000]
    /\ contents = [k \in DOMAIN objects |->
                      IF k \in OtherKeys THEN OtherObject
                      ELSE create_db_backup(<<>>)]
    /\ ToolInit
    /\ bk = IdleBackup

BackupNext ==
    \E today \in FirstBackupDay..LastBackupDay, midnight \in BOOLEAN,
       dump \in DumpSizes,
       dump_ok, upload_ok, download_ok, list_ok \in BOOLEAN :
          perform_backup(today, midnight, dump, dump_ok, upload_ok,
                         download_ok, list_ok)

BackupSpec == BackupInit /\ [][BackupNext]_vars

\* "backups/backup_manual.sql.gz", a backup put into the bucket by hand: it
\* starts with "backups/backup_" and holds no "_<tier>." part.  "m" sorts
\* after every digit, which the day number past the year stands for.
ManualKey == [prefix |-> "backups/backup_", date |-> 366, tier |-> NULL]

\* the snapshots the tier rule names on the first n days from the first run
\* day on: a run made earlier on the day of the run, and snapshots written
\* where the clock is ahead of this deployment's
AheadKeys(n) ==
    {BackupKey(d, determine_backup_type(d)) :
        d \in FirstBackupDay..(FirstBackupDay + n - 1)}

\* the bucket when a run starts on a day that already has snapshots
RerunInit ==
    /\ SyncInit
    /\ env = [secret |-> TRUE, page_id |-> TRUE]
    /\ STORAGE_CLIENT \in BOOLEAN
    /\ \E nd \in 0..MaxDaily, na \in 0..MaxAhead :
          objects = [k \in PastKeys("daily", nd) \cup AheadKeys(na)
                             \cup OtherKeys \cup {ManualKey}
                        |-> 50000]
    /\ contents = [k \in DOMAIN objects |->
                      IF k \in OtherKeys \cup {ManualKey} THEN OtherObject
                      ELSE create_db_backup(<<>>)]
    /\ ToolInit
    /\ bk = IdleBackup

RerunSpec == RerunInit /\ [][BackupNext]_vars

(* ------------------------------ formatter ------------------------------ *)
\* A text is a sequence of characters; an occurrence of "http://" or of
\* "https://" is written as one character of the sequence (two occurrences
\* cannot overlap), "a" and "," are characters that are not whitespace.
Chars == {"http://", "https://", "a", ",", " ", "\n"}

IsScheme(c) == c \in {"http://", "https://"}

\* \s
IsSpace(c) == c \in {" ", "\n"}

\* "see https://example.com/a,b now"
ExampleText == <<"a", " ", "https://", "a", ",", "a", " ", "a">>

Texts == UNION {[1..n -> Chars] : n \in 0..MaxText} \cup {ExampleText}

\* https?://[^\s]+ matches at position j
MatchAt(text, j) ==
    /\ IsScheme(text[j])
    /\ j < Len(text)
    /\ ~IsSpace(text[j + 1])

\* the last position of the greedy match that starts at j
MatchEnd(text, j) ==
    CHOOSE k \in (j + 1)..Len(text) :
        /\ \A i \in (j + 1)..k : ~IsSpace(text[i])
        /\ k = Len(text) \/ IsSpace(text[k + 1])

\* re.search(url_pattern, text) is not None
re_search(text) == \E j \in 1..Len(text) : MatchAt(text, j)

\* re.split(url_pattern, text) from position from on: the pattern has one
\* group, so the matches are kept between the pieces
RECURSIVE re_split(_, _)
re_split(text, from) ==
    LET starts == {j \in from..Len(text) : MatchAt(text, j)}
    IN  IF starts = {} THEN <<SubSeq(text, from, Len(text))>>
        ELSE LET j == CHOOSE x \in starts : \A y \in starts : x <= y
                 k == MatchEnd(text, j)
             IN  <<SubSeq(text, from, j - 1), SubSeq(text, j, k)>>
                    \o re_split(text, k + 1)

NoLink == <<>>

\* every piece taken for a URL
IsUrlPart_Always(i) == TRUE

\* i % 2 == 0 is regular text, otherwise the piece is a URL (i from 0)
IsUrlPart(i) == i % 2 # 0

\* the loop over enumerate(parts): empty text pieces are left out
RECURSIVE PartSpans(_, _)
PartSpans(parts, i) ==
    IF i >= Len(parts) THEN <<>>
    ELSE LET part == parts[i + 1]
         IN  (IF IsUrlPart(i) THEN <<[content |-> part, link |-> part]>>
              ELSE IF part # <<>> THEN <<[content |-> part, link |-> NoLink]>>
              ELSE <<>>)
             \o PartSpans(parts, i + 1)

\* format_message_for_notion for a message without media: the rich_text of
\* the paragraph, the header span first
format_message_for_notion(text) ==
    <<[content |-> <<"header">>, link |-> NoLink]>>
      \o (IF re_search(text) THEN PartSpans(re_split(text, 1), 0)
          ELSE <<[content |-> text, link |-> NoLink]>>)

\* a message without media and with any text is about to be formatted
FormatInit ==
    /\ SyncInit
    /\ env \in [secret : BOOLEAN, page_id : BOOLEAN]
    /\ STORAGE_CLIENT = TRUE
    /\ objects = <<>>
    /\ bk = IdleBackup
    /\ contents = <<>>
    /\ live_db = "intact"
    /\ rs = IdleRestore
    /\ \E text \in Texts : fmt = [IdleFormat EXCEPT !.text = text]

FormatCall ==
    /\ ~fmt.called
    /\ fmt' = [called |-> TRUE, text |-> fmt.text,
               spans |-> format_message_for_notion(fmt.text)]
    /\ UNCHANGED <<syncvars, faults, backupvars, contents, live_db, rs>>

FormatSpec == FormatInit /\ [][FormatCall]_vars

(* ---------------------------- restore tool ----------------------------- *)
\* str.lower() of the answers the operator types in the model
Lower(answer) ==
    IF answer \in {"yes", "YES", "Yes"} THEN "yes"
    ELSE IF answer \in {"q", "Q"} THEN "q"
    ELSE answer

Answers == {"yes", "YES", "no", "y", ""}

Selections == {"q", "Q", "0", "1", " 1", "-1", "5", "x", ""}

\* a prompt that takes any answer for a yes
IsYes_Any(answer) == TRUE

\* the test of both prompts: answer.lower() != "yes" cancels
IsYes(answer) == Lower(answer) = "yes"

\* int(selection) does not raise ValueError
IsInt(selection) == selection \in {"0", "1", " 1", "-1", "5"}

\* int(selection)
ParseInt(selection) ==
    IF selection = "0" THEN 0
    ELSE IF selection \in {"1", " 1"} THEN 1
    ELSE IF selection = "-1" THEN 0 - 1
    ELSE 5

\* list_available_backups: the keys starting with "backups/backup_", newest
\* first, each with its position in that list; an entry is made for the file
\* names of at least three "_"-separated parts; [] without a client or when
\* listing raises
list_available_backups(store, list_ok) ==
    IF ~(STORAGE_CLIENT /\ list_ok) THEN <<>>
    ELSE LET backup_objects ==
                 SortDesc({k \in DOMAIN store : k.prefix = "backups/backup_"})
             entries == [i \in 1..Len(backup_objects) |->
                            [index |-> i - 1, path |-> backup_objects[i]]]
         IN  SelectSeq(entries, LAMBDA e : e.path.tier # NULL)

\* download_backup: download and gzip.decompress, None on any exception
download_backup(backup_path, download_ok) ==
    IF /\ STORAGE_CLIENT
       /\ download_ok
       /\ backup_path \in DOMAIN contents
       /\ contents[backup_path].gz
    THEN contents[backup_path]
    ELSE NoData

\* a failed termination of the connections ends the restore
AfterTerminate_Abort(term_ok) == term_ok

\* the termination step only logs a warning when psql fails or cannot be run
AfterTerminate(term_ok) == TRUE

\* pg_restore reads archives written by pg_dump; it rejects a plain-text SQL
\* file and returns non-zero; on an archive its return code is replay_ok
pg_restore(backup_data, replay_ok) ==
    backup_data.format = "archive" /\ replay_ok

\* get_db_connection_params: os.environ.get(name, "") is always a string
get_db_connection_params == TRUE

\* restore_database: the steps made, the outcome of each subprocess and the
\* value returned.  params_ok: host, port, user and dbname are strings.
\* Writing and removing the temporary file are taken not to fail.
restore_database(backup_data, params_ok, term_ok, drop_ok, create_ok, replay_ok) ==
    LET started == params_ok
        go == started /\ AfterTerminate(term_ok)
        dropped == go /\ drop_ok
        created == dropped /\ create_ok
        replayed == created /\ pg_restore(backup_data, replay_ok)
        Rc(ran, ok) == IF ~ran THEN "not_run" ELSE IF ok THEN "ok" ELSE "failed"
    IN  [steps |-> (IF started THEN <<"terminate">> ELSE <<>>)
                     \o (IF go THEN <<"drop">> ELSE <<>>)
                     \o (IF dropped THEN <<"create">> ELSE <<>>)
                     \o (IF created THEN <<"replay">> ELSE <<>>),
         rc |-> [terminate |-> Rc(started, term_ok),
                 drop |-> Rc(go, drop_ok),
                 create |-> Rc(dropped, create_ok),
                 replay |-> Rc(created, replayed)],
         result |-> replayed]

\* interactive_restore up to the listing of the backups
RestoreProceed(proceed, list_ok) ==
    /\ rs.pc \in {"idle", "done"}
    /\ rs.runs < MaxRestoreRuns
    /\ LET backups == list_available_backups(objects, list_ok)
           new == [IdleRestore EXCEPT !.runs = rs.runs + 1,
                                      !.proceed = proceed]
       IN  IF ~IsYes(proceed)
           THEN /\ list_ok
                /\ rs' = [new EXCEPT !.pc = "done", !.outcome = "cancelled"]
           ELSE IF backups = <<>>
           THEN rs' = [new EXCEPT !.pc = "done", !.outcome = "no_backups"]
           ELSE rs' = [new EXCEPT !.pc = "select", !.backups = backups]
    /\ UNCHANGED <<syncvars, faults, backupvars, contents, live_db, fmt>>

\* one pass of the selection loop
RestoreSelect(selection) ==
    /\ rs.pc = "select"
    /\ IF Lower(selection) = "q"
       THEN rs' = [rs EXCEPT !.pc = "done", !.outcome = "cancelled",
                             !.selection = selection]
       ELSE IF /\ IsInt(selection)
               /\ 0 <= ParseInt(selection)
               /\ ParseInt(selection) < Len(rs.backups)
       THEN rs' = [rs EXCEPT !.pc = "confirm", !.selection = selection,
                             !.selected = rs.backups[ParseInt(selection) + 1]]
       ELSE rs' = [rs EXCEPT !.selection = selection]
    /\ UNCHANGED <<syncvars, faults, backupvars, contents, live_db, fmt>>

\* the second prompt, the download and restore_database.  After a failed
\* replay of an archive the new database holds the first n rows of it.
RestoreConfirm(confirm, download_ok, term_ok, drop_ok, create_ok, replay_ok, n) ==
    /\ rs.pc = "confirm"
    /\ LET backup_data == download_backup(rs.selected.path, download_ok)
           have_data == backup_data # NoData /\ backup_data.format # "empty"
           call == IsYes(confirm) /\ have_data
           r == restore_database(backup_data, get_db_connection_params,
                                 term_ok, drop_ok, create_ok, replay_ok)
           dropped == call /\ r.rc.drop = "ok"
           created == call /\ r.rc.create = "ok"
       IN
       \* outcomes of calls that are not made are fixed
       /\ IsYes(confirm) \/ download_ok
       /\ call \/ (term_ok /\ drop_ok)
       /\ dropped \/ create_ok
       /\ (created /\ backup_data.format = "archive") \/ replay_ok
       /\ n <= Len(backup_data.rows)
       /\ (created /\ ~r.result /\ backup_data.format = "archive") \/ n = 0
       /\ rs' = IF ~IsYes(confirm)
                THEN [rs EXCEPT !.pc = "done", !.outcome = "cancelled",
                                !.confirm = confirm]
                ELSE IF ~have_data
                THEN [rs EXCEPT !.pc = "done", !.outcome = "download_failed",
                                !.confirm = confirm, !.data = backup_data]
                ELSE [rs EXCEPT !.pc = "done", !.confirm = confirm,
                                !.outcome = IF r.result THEN "restored"
                                            ELSE "failed",
                                !.data = backup_data, !.called = TRUE,
                                !.steps = r.steps, !.rc = r.rc,
                                !.result = r.result]
       /\ live_db' = IF ~dropped THEN live_db
                     ELSE IF ~created THEN "dropped"
                     ELSE IF r.result THEN "restored"
                     ELSE IF n = 0 THEN "empty" ELSE "partial"
       /\ messages' = IF ~dropped THEN messages
                      ELSE IF ~created THEN <<>>
                      ELSE IF r.result THEN backup_data.rows
                      ELSE SubSeq(backup_data.rows, 1, n)
       /\ sync_log' = IF dropped THEN <<>> ELSE sync_log
    /\ UNCHANGED <<env, dbs, pages, run, faults, backupvars, contents, fmt>>

\* the one row of the archive found in the store
ArchiveRows ==
    <<[ts |-> 0, text |-> "TEXT", media_type |-> NULL,
       media_stored_path |-> NULL, synced |-> TRUE, notion_page_id |-> 1]>>

\* snapshots put into the store by hand: a pg_dump archive, an archive that
\* was not compressed, and a compressed empty file
HandMade ==
    (BackupKey(140, "daily") :>
        [gz |-> TRUE, format |-> "archive", rows |-> ArchiveRows,
         taken_of |-> ArchiveRows, producer |-> "other"])
    @@ (BackupKey(141, "daily") :>
        [gz |-> FALSE, format |-> "archive", rows |-> ArchiveRows,
         taken_of |-> ArchiveRows, producer |-> "other"])
    @@ (BackupKey(142, "daily") :>
        [gz |-> TRUE, format |-> "empty", rows |-> <<>>,
         taken_of |-> <<>>, producer |-> "other"])

RestoreInit ==
    /\ SyncInit
    /\ env = [secret |-> TRUE, page_id |-> TRUE]
    /\ STORAGE_CLIENT \in BOOLEAN
    /\ \E S \in SUBSET DOMAIN HandMade :
          /\ objects = [k \in S \cup OtherKeys |-> 50000]
          /\ contents = [k \in S \cup OtherKeys |->
                            IF k \in OtherKeys THEN OtherObject
                            ELSE HandMade[k]]
    /\ bk = IdleBackup
    /\ ToolInit

\* the webhook stores text messages while the database is up; the backup runs
\* while a database exists; the operator runs the restore tool
RestoreNext ==
    \/ \E ts \in {0, MaxTs} :
          live_db = "intact" /\ Ingest(ts, "TEXT", FALSE, TRUE)
    \/ \E dump_ok, upload_ok, download_ok, list_ok \in BOOLEAN :
          /\ live_db # "dropped"
          /\ perform_backup(LastBackupDay, FALSE, 50000, dump_ok, upload_ok,
                            download_ok, list_ok)
    \/ \E proceed \in Answers, list_ok \in BOOLEAN :
          RestoreProceed(proceed, list_ok)
    \/ \E selection \in Selections : RestoreSelect(selection)
    \/ \E confirm \in Answers, download_ok, term_ok, drop_ok, create_ok,
          replay_ok \in BOOLEAN, n \in 0..MaxMessages :
          RestoreConfirm(confirm, download_ok, term_ok, drop_ok, create_ok,
                         replay_ok, n)

RestoreSpec == RestoreInit /\ [][RestoreNext]_vars

\* the bucket also holds backups/backup_manual.sql.gz, an archive put there
\* by hand
SelectInit ==
    /\ SyncInit
    /\ env = [secret |-> TRUE, page_id |-> TRUE]
    /\ STORAGE_CLIENT \in BOOLEAN
    /\ \E S \in SUBSET DOMAIN HandMade :
          /\ objects = [k \in S \cup OtherKeys \cup {ManualKey} |-> 50000]
          /\ contents = [k \in S \cup OtherKeys \cup {ManualKey} |->
                            IF k \in OtherKeys THEN OtherObject
                            ELSE IF k = ManualKey
                            THEN HandMade[BackupKey(140, "daily")]
                            ELSE HandMade[k]]
    /\ bk = IdleBackup
    /\ ToolInit

SelectSpec == SelectInit /\ [][RestoreNext]_vars

\* determine_backup_type called on any day of 2024
TierDays == 0..365

TierCall(today) ==
    /\ bk' = [bk EXCEPT !.today = today,
                        !.backup_type = determine_backup_type(today)]
    /\ UNCHANGED <<syncvars, faults, STORAGE_CLIENT, objects, toolvars>>

TierNext == \E today \in TierDays : TierCall(today)

TierSpec == Init /\ [][TierNext]_vars

(* --------------------------- specification ----------------------------- *)
\* the scheduler job alone: APScheduler never overlaps a job with itself
Next ==
    \/ \E ts \in Timestamps, text \in TextVals, is_media, saved \in BOOLEAN :
          Ingest(ts, text, is_media, saved)
    \/ \E root_ok, fetch_ok, h_ok \in BOOLEAN :
          Len(sync_log) < MaxLog /\ SyncStart("job", root_ok, fetch_ok, h_ok)
    \/ \E a, b, c, d, e, h \in BOOLEAN :
          SyncResolveAppend("job", a, b, c, d, e, h)
    \/ \E ok \in BOOLEAN : SyncReadCount("job", ok)
    \/ \E ok \in BOOLEAN : SyncUpdateCount("job", ok)
    \/ \E c1, c2, h \in BOOLEAN : SyncCommit("job", c1, c2, h)
    \/ Crash("job")

Spec == Init /\ [][Next]_vars

\* The scheduler keeps calling the job every five minutes and a started run
\* keeps executing, so a step of the job that can be taken is eventually
\* taken; the configuration is valid; external calls fail and the process
\* crashes at most MaxFaults times.
JobStep ==
    \/ \E root_ok, fetch_ok, h_ok \in BOOLEAN :
          SyncStart("job", root_ok, fetch_ok, h_ok)
    \/ \E a, b, c, d, e, h \in BOOLEAN :
          SyncResolveAppend("job", a, b, c, d, e, h)
    \/ \E ok \in BOOLEAN : SyncReadCount("job", ok)
    \/ \E ok \in BOOLEAN : SyncUpdateCount("job", ok)
    \/ \E c1, c2, h \in BOOLEAN : SyncCommit("job", c1, c2, h)

\* the webhook under LiveSpec: updates arrive in the order of their
\* timestamps, which are the first instants of the modelled dates
LiveTimestamps == {d * TicksPerDay : d \in 0..(MaxTs \div TicksPerDay)}

LiveIngest(ts, text, is_media, saved) ==
    /\ \A k \in DOMAIN messages : ts >= messages[k].ts
    /\ Ingest(ts, text, is_media, saved)

LiveNext ==
    \/ \E ts \in LiveTimestamps, text \in TextVals,
          is_media, saved \in BOOLEAN :
          LiveIngest(ts, text, is_media, saved)
    \/ JobStep
    \/ Crash("job")

LiveInit == Init /\ env = [secret |-> TRUE, page_id |-> TRUE]

LiveSpec == LiveInit /\ [][LiveNext]_vars /\ WF_vars(JobStep)

\* The scheduler thread calls sync_messages_job while a request thread may be
\* in trigger_sync: two calls of sync_messages_to_notion, each with its own
\* session, whose steps interleave.  Every external call succeeds.
SyncStep(r) ==
    \/ Len(sync_log) < MaxLog /\ SyncStart(r, TRUE, TRUE, TRUE)
    \/ SyncResolveAppend(r, TRUE, TRUE, TRUE, TRUE, TRUE, TRUE)
    \/ SyncReadCount(r, TRUE)
    \/ SyncUpdateCount(r, TRUE)
    \/ SyncCommit(r, TRUE, TRUE, TRUE)

ConcNext ==
    \/ \E ts \in LiveTimestamps : Ingest(ts, "TEXT", FALSE, TRUE)
    \/ SyncStep("job")
    \/ SyncStep("manual")

ConcSpec == LiveInit /\ [][ConcNext]_vars

TypeOK ==
    /\ Len(messages) <= MaxMessages
    /\ Len(sync_log) <= MaxLog
    /\ faults \in 0..MaxFaults

(* ------------------------------- claims -------------------------------- *)
\* a step of the job that is a call of sync_messages_to_notion
JobCalled == run.job.pc = "idle" /\ (sync_log' # sync_log \/ run'.job.pc # "idle")

\* a step with which a call of sync_messages_to_notion returns
JobReturns == run.job.pc # "idle" /\ run'.job.pc = "idle"

AllSynced == \A i \in DOMAIN messages : messages[i].synced

\* rows of the job's fetch whose timestamp falls on date d
JobGroup(d) ==
    {i \in Range(run.job.unsynced) : run.job.start_msgs[i].ts \div TicksPerDay = d}

\* C1: with a valid configuration, a reachable root page and no row with
\* synced = false, a call of sync_messages_to_notion appends exactly one
\* SyncStatus (messages_synced 0, success true) and changes no message row;
\* no row is unsynced afterwards, so the next call does the same again.
C1_SyncIdempotent ==
    [][(/\ JobCalled
        /\ env.secret /\ env.page_id
        /\ faults' = faults
        /\ AllSynced)
       => /\ sync_log' = Append(sync_log,
                [messages_synced |-> 0, success |-> TRUE,
                 error_message |-> NULL])
          /\ messages' = messages
          /\ run'.job.pc = "idle"
          /\ dbs' = dbs /\ pages' = pages]_vars

\* two calls in a row found nothing to sync, after a call that synced a row
C1_Witness ==
    /\ Len(sync_log) = 3
    /\ sync_log[1].messages_synced > 0
    /\ \A k \in 2..3 : /\ sync_log[k].messages_synced = 0
                       /\ sync_log[k].success
    /\ messages # <<>>
    /\ AllSynced

\* C2: in every reachable state every message row with synced = true has a
\* non-null notion_page_id.
C2_SyncedHasPage ==
    \A i \in DOMAIN messages :
        messages[i].synced => messages[i].notion_page_id # NoPage

\* a run in which one date group failed has committed another group
C2_Witness ==
    /\ run.job.pc = "idle"
    /\ run.job.failed_dates # {}
    /\ \E i \in DOMAIN messages :
          messages[i].synced /\ messages[i].notion_page_id # NoPage
    /\ \E i \in DOMAIN messages : ~messages[i].synced

\* C3: with runs that keep being triggered and workspace calls that
\* eventually succeed, every stored message is eventually synced with a
\* non-null page reference.
C3_EventuallySynced ==
    \A i \in 1..MaxMessages :
        [](i \in DOMAIN messages
             => <>(/\ i \in DOMAIN messages
                   /\ messages[i].synced
                   /\ messages[i].notion_page_id # NoPage))

\* C4: when the client cannot be built or the root page id is unset, a call
\* appends one SyncStatus with success = false, messages_synced = 0 and the
\* error of the failed check, makes no workspace call and leaves every
\* message row and the workspace unchanged.
C4_FailFast ==
    [][(JobCalled /\ (~env.secret \/ ~env.page_id))
       => /\ sync_log' = Append(sync_log,
                [messages_synced |-> 0, success |-> FALSE,
                 error_message |-> IF ~env.secret THEN "client"
                                   ELSE "page_id"])
          /\ messages' = messages
          /\ run'.job.pc = "idle"
          /\ run'.job.calls = {}
          /\ dbs' = dbs /\ pages' = pages]_vars

\* a failed validation was recorded while unsynced rows were waiting
C4_Witness ==
    /\ ~env.secret \/ ~env.page_id
    /\ sync_log # <<>>
    /\ ~Last(sync_log).success
    /\ \E i \in DOMAIN messages : ~messages[i].synced

\* C5: when resolving the monthly database or the daily page, appending or
\* updating fails for a date group, the step changes no message row and
\* nothing the session has staged, and the run goes on with the next date
\* (or to the commit after the last date); when the run returns, every
\* message of a failed group is still unsynced, and when it returns after
\* the commit every date was processed and every message of the other
\* groups is synced.
C5_FailureIsolated ==
    [][/\ (run.job.pc # "idle"
             /\ run'.job.failed_dates # run.job.failed_dates)
          => /\ run'.job.failed_dates =
                   run.job.failed_dates \cup {run.job.dates[run.job.g]}
             /\ messages' = messages
             /\ run'.job.staged = run.job.staged
             /\ run'.job.ok_dates = run.job.ok_dates
             /\ IF run.job.g < Len(run.job.dates)
                THEN run'.job.pc = "group" /\ run'.job.g = run.job.g + 1
                ELSE run'.job.pc = "commit"
       /\ JobReturns
          => \A d \in run.job.failed_dates :
                \A i \in JobGroup(d) : ~messages'[i].synced
       /\ (JobReturns /\ run'.job.result = "ok")
          => /\ run.job.ok_dates \cup run.job.failed_dates
                   = Range(run.job.dates)
             /\ \A d \in run.job.ok_dates :
                   \A i \in JobGroup(d) : messages'[i].synced]_vars

\* a run whose earlier date group failed has synced its later date group
C5_Witness ==
    /\ run.job.pc = "idle"
    /\ run.job.result = "ok"
    /\ \E f \in run.job.failed_dates, o \in run.job.ok_dates :
          /\ f < o
          /\ \A i \in JobGroup(f) : ~messages[i].synced
          /\ \A i \in JobGroup(o) : messages[i].synced

\* C6: while a run has not reached its end, and after a run that crashed or
\* aborted before the final commit, every committed message row is what it
\* was when the run started.
C6_CommitOnlyAtEnd ==
    (\/ run.job.pc # "idle"
     \/ run.job.result \in {"crashed", "aborted", "aborted_raised"})
    => \A i \in DOMAIN run.job.start_msgs :
          messages[i] = run.job.start_msgs[i]

\* C7: a run that reaches the end of the function (both commits done)
\* records success = true with messages_synced = the number of messages of
\* the date groups that succeeded, and leaves the messages of the failed
\* groups unsynced.
C7_PartialRunReportsSuccess ==
    [][(JobReturns /\ run'.job.result = "ok")
       => /\ sync_log' = Append(sync_log,
                [messages_synced |->
                    Cardinality(UNION {JobGroup(d) : d \in run.job.ok_dates}),
                 success |-> TRUE, error_message |-> NULL])
          /\ \A d \in run.job.failed_dates :
                \A i \in JobGroup(d) : ~messages'[i].synced]_vars

\* a run with one failed and one succeeded group has recorded success with
\* the size of the succeeded group
C7_Witness ==
    /\ run.job.pc = "idle"
    /\ run.job.result = "ok"
    /\ run.job.failed_dates # {}
    /\ run.job.ok_dates # {}
    /\ Last(sync_log).success
    /\ Last(sync_log).messages_synced = 1
    /\ \E i \in DOMAIN messages : ~messages[i].synced

\* timestamps of the messages of a sequence of blocks, in the order of the
\* blocks
BlockTimes(blocks) == [k \in DOMAIN blocks |-> messages[blocks[k].msg].ts]

\* C8: every block of a daily page belongs to a message whose timestamp
\* falls on the date of that page, and the page lies in the database of that
\* date's month; the blocks one append adds are in ascending timestamp
\* order; the dates of a run are in ascending order and are processed in
\* that order.
C8_Ordering ==
    /\ [](\A p \in DOMAIN pages :
            /\ dbs[pages[p].db].title = pages[p].date \div DaysPerMonth
            /\ \A k \in DOMAIN pages[p].blocks :
                  messages[pages[p].blocks[k].msg].ts \div TicksPerDay
                     = pages[p].date)
    /\ [](\A a, b \in DOMAIN run.job.dates :
            a < b => run.job.dates[a] < run.job.dates[b])
    /\ [][/\ \A p \in DOMAIN pages :
               /\ p \in DOMAIN pages'
               /\ Len(pages'[p].blocks) >= Len(pages[p].blocks)
               /\ SubSeq(pages'[p].blocks, 1, Len(pages[p].blocks))
                     = pages[p].blocks
               /\ LET added == SubSeq(BlockTimes(pages'[p].blocks),
                                      Len(pages[p].blocks) + 1,
                                      Len(pages'[p].blocks))
                  IN  \A a, b \in DOMAIN added : a < b => added[a] <= added[b]
          /\ \A p \in DOMAIN pages' \ DOMAIN pages :
               \A a, b \in DOMAIN pages'[p].blocks :
                  a < b => BlockTimes(pages'[p].blocks)[a]
                              <= BlockTimes(pages'[p].blocks)[b]
          /\ (run.job.pc # "idle" /\ run'.job.pc # "idle")
             => run'.job.g \in {run.job.g, run.job.g + 1}]_vars

\* one append has put a later-stored, earlier-stamped message before an
\* earlier-stored, later-stamped one on their page
C8_Witness ==
    \E p \in DOMAIN pages :
       \E a, b \in DOMAIN pages[p].blocks :
          /\ a < b
          /\ pages[p].blocks[a].msg > pages[p].blocks[b].msg
          /\ messages[pages[p].blocks[a].msg].ts
                < messages[pages[p].blocks[b].msg].ts
          /\ pages[p].status = "Synced"

\* snapshots of tier t among the keys of a store
Snapshots(store, t) ==
    {k \in DOMAIN store : k.prefix = "backups/backup_" /\ k.tier = t}

\* what the retention pass of the last backup run had to achieve: each tier
\* keeps min(count, N) snapshots, N = 7 daily / 4 weekly / 3 monthly, the
\* deleted ones are the oldest of their tier, decided by the snapshots of
\* that tier alone, and nothing else in the store changes
RetentionDone ==
    /\ \A t \in Tiers :
          LET had == Snapshots(bk.before, t)
              kept == Snapshots(objects, t)
              N == IF t = "daily" THEN 7 ELSE IF t = "weekly" THEN 4 ELSE 3
          IN  /\ kept \subseteq had
              /\ Cardinality(kept) = Min(Cardinality(had), N)
              /\ \A x \in had \ kept : \A y \in kept : x.date < y.date
    /\ \A k \in DOMAIN objects : objects[k] = bk.before[k]
    /\ \A k \in DOMAIN bk.before \ DOMAIN objects :
          k.prefix = "backups/backup_"

C10_VerificationGate ==
    bk.downloaded
    => IF bk.size < 1000
       THEN /\ ~bk.result
            /\ "retention" \notin Range(bk.steps)
            /\ bk.deleted = {}
            /\ objects = bk.before
       ELSE /\ bk.result
            /\ Last(bk.steps) = "retention"

\* a 999-byte snapshot was rejected while the daily tier was over its
\* retention, and nothing was deleted
C10_Witness ==
    /\ bk.downloaded
    /\ bk.size = 999
    /\ ~bk.result
    /\ Cardinality(Snapshots(objects, "daily")) > 7

\* C11: a backup run executes dump, upload, verify, retention in that order
\* and stops at the first step that fails: after a failed dump nothing is
\* uploaded, after a failed upload nothing is verified, after a failed
\* verification nothing is deleted, and each of these runs returns false;
\* a run reaches retention only with all three steps succeeded.
C11_ShortCircuit ==
    [][bk'.runs = bk.runs + 1
       => LET b == bk'
              all == <<"dump", "upload", "verify", "retention">>
          IN  /\ Len(b.steps) \in 1..4
              /\ b.steps = SubSeq(all, 1, Len(b.steps))
              /\ ~b.dumped
                 => b.steps = <<"dump">> /\ ~b.result /\ objects' = objects
              /\ (b.dumped /\ ~b.uploaded)
                 => /\ b.steps = <<"dump", "upload">>
                    /\ ~b.result /\ objects' = objects
              /\ (b.uploaded /\ ~(b.downloaded /\ b.size >= 1000))
                 => /\ b.steps = <<"dump", "upload", "verify">>
                    /\ ~b.result
                    /\ DOMAIN objects' = DOMAIN objects \cup {b.key}
              /\ "retention" \in Range(b.steps)
                 => b.dumped /\ b.uploaded /\ b.downloaded /\ b.size >= 1000
              /\ b.result <=> "retention" \in Range(b.steps)]_vars

\* the download of the uploaded snapshot failed with the daily tier over its
\* retention: the run stopped after verify
C11_Witness ==
    /\ bk.uploaded /\ ~bk.downloaded
    /\ bk.steps = <<"dump", "upload", "verify">>
    /\ ~bk.result
    /\ Cardinality(Snapshots(objects, "daily")) > 7

\* C12: a backup run returns true only if the listing of the snapshots and
\* every delete of the retention pass succeeded.
C12_TrueMeansRetentionDone ==
    bk.result => bk.listing_ok /\ bk.delete_failed = {}

\* day numbers of the first days of the months of 2024
FirstsOf2024 == {0, 31, 60, 91, 121, 152, 182, 213, 244, 274, 305, 335}

\* C13: for every day of 2024 determine_backup_type gives monthly on the
\* first of a month, otherwise weekly on a Sunday, otherwise daily; the first
\* of a month that is a Sunday is monthly; 2024-06-01 is monthly and
\* 2024-06-02 weekly.
C13_TierSelection ==
    bk.backup_type # NULL
    => /\ bk.backup_type \in {"daily", "weekly", "monthly"}
       /\ bk.backup_type =
             (IF bk.today \in FirstsOf2024 THEN "monthly"
              ELSE IF (bk.today + 1) % 7 = 0 THEN "weekly"
              ELSE "daily")
       /\ bk.today = 152 => bk.backup_type = "monthly"
       /\ bk.today = 153 => bk.backup_type = "weekly"

\* Sunday 2024-09-01 was given the monthly tier
C13_Witness ==
    /\ bk.today = 244
    /\ (bk.today + 1) % 7 = 0
    /\ bk.backup_type = "monthly"

\* a call of sync_messages_to_notion by the job returns (the process did not
\* die in it)
JobReturned ==
    /\ run'.job.pc = "idle"
    /\ run'.job # run.job \/ sync_log' # sync_log
    /\ run'.job.result # "crashed"

\* C17: every call of sync_messages_to_notion that returns, on any path, has
\* added exactly one SyncStatus record, and no step of a sync run changes or
\* removes a record that already exists.
C17_OneStatusPerCall ==
    [][/\ JobReturned
          => \E rec \in Range(sync_log') : sync_log' = Append(sync_log, rec)
       /\ \A k \in DOMAIN sync_log :
             k \in DOMAIN sync_log' /\ sync_log'[k] = sync_log[k]]_vars

\* C19: format_message_for_notion has no failure mode: for every stored
\* message it returns a non-empty block sequence starting with the header
\* paragraph and never raises.
C19_FormatterTotal ==
    \A i \in DOMAIN messages :
        /\ ~FormatRaises(messages[i])
        /\ FormatBlocks(i, messages[i]) # <<>>
        /\ FormatBlocks(i, messages[i])[1].type = "paragraph"

\* C20: a monthly database is created only when no database with its title
\* exists, and a daily page only when its database has no page of its date.
C20_SearchBeforeCreate ==
    [][/\ Len(dbs') > Len(dbs)
          => \A i \in DOMAIN dbs : dbs[i].title # Last(dbs').title
       /\ Len(pages') > Len(pages)
          => \A p \in DOMAIN pages :
                ~(pages[p].db = Last(pages').db
                  /\ pages[p].date = Last(pages').date)]_vars

\* C14: restore_database runs terminate, drop, create, replay in this order
\* and stops at a failed drop or create; it returns true exactly when drop,
\* create and replay succeeded, whatever the termination step did; after a
\* failure past a successful drop the live database stays dropped, empty or
\* partially restored.
C14_RestoreSequence ==
    rs.called
    => LET all == <<"terminate", "drop", "create", "replay">>
       IN  /\ Len(rs.steps) \in 2..4
           /\ rs.steps = SubSeq(all, 1, Len(rs.steps))
           /\ rs.rc.terminate \in {"ok", "failed"}
           /\ rs.result <=> /\ rs.rc.drop = "ok"
                            /\ rs.rc.create = "ok"
                            /\ rs.rc.replay = "ok"
           /\ rs.rc.drop = "failed"
              => rs.steps = <<"terminate", "drop">>
           /\ rs.rc.create = "failed"
              => rs.steps = <<"terminate", "drop", "create">>
           /\ (rs.rc.drop = "ok" /\ ~rs.result)
              => /\ live_db \in {"dropped", "empty", "partial"}
                 /\ sync_log = <<>>
                 /\ rs.rc.create = "failed" => messages = <<>>

\* a restore that returned true although psql could not end the connections
C14_Witness ==
    /\ rs.called
    /\ rs.rc.terminate = "failed"
    /\ rs.result
    /\ live_db = "restored"
    /\ messages = ArchiveRows

\* the strings whose int() is j
Digits(j) ==
    IF j = 0 THEN {"0"} ELSE IF j = 1 THEN {"1", " 1"}
    ELSE IF j = 5 THEN {"5"} ELSE {}

\* the four conditions of a destructive restore, on the record of a session
Confirmed(r) ==
    /\ r.proceed \in {"yes", "YES", "Yes"}
    /\ \E j \in 0..(Len(r.backups) - 1) :
          r.selection \in Digits(j) /\ r.selected = r.backups[j + 1]
    /\ r.confirm \in {"yes", "YES", "Yes"}
    /\ r.data # NoData
    /\ r.data.gz /\ r.data.format # "empty"

\* C15: in interactive_restore the live database is dropped only after a yes
\* (in any letter case) to the first prompt, the selection of an index of the
\* list, a yes to the second prompt and a successful download and
\* decompression; any other answer to a yes/no prompt, 'q', an empty list and
\* a failed download end the session, and every step of a session that does
\* not meet the four conditions leaves the live database as it was.
C15_ConfirmedRestore ==
    [][rs' # rs
       => /\ "drop" \in Range(rs'.steps) => Confirmed(rs')
          /\ ~Confirmed(rs')
             => /\ ~rs'.called
                /\ messages' = messages
                /\ sync_log' = sync_log
                /\ live_db' = live_db
          /\ (rs.pc \in {"idle", "done"}
                /\ (rs'.proceed \notin {"yes", "YES", "Yes"}
                      \/ rs'.backups = <<>>))
             => rs'.pc = "done"
          /\ (rs.pc = "select" /\ rs'.selection \in {"q", "Q"})
             => rs'.pc = "done"
          /\ rs.pc = "confirm" => rs'.pc = "done"]_vars

\* a session that met the four conditions and dropped the live database
C15_Witness ==
    /\ rs.pc = "done"
    /\ Confirmed(rs)
    /\ rs.proceed = "YES"
    /\ rs.rc.drop = "ok"
    /\ live_db # "intact"

\* C16: a snapshot made by create_db_backup and uploaded by perform_backup is
\* restored by download_backup and restore_database when dropdb and createdb
\* succeed, and the live rows are then the rows held at the time of the dump.
C16_RoundTrip ==
    (/\ rs.called
     /\ rs.data.producer = "engine"
     /\ rs.rc.drop = "ok"
     /\ rs.rc.create = "ok")
    => /\ rs.result
       /\ messages = rs.data.taken_of

\* the contents of a sequence of spans, joined
RECURSIVE Joined(_)
Joined(spans) ==
    IF spans = <<>> THEN <<>>
    ELSE Head(spans).content \o Joined(Tail(spans))

\* the words of a text (longest runs without whitespace), as pairs of their
\* first and last position
Words(text) ==
    {w \in (1..Len(text)) \X (1..Len(text)) :
        /\ w[1] <= w[2]
        /\ \A i \in w[1]..w[2] : ~IsSpace(text[i])
        /\ w[1] = 1 \/ IsSpace(text[w[1] - 1])
        /\ w[2] = Len(text) \/ IsSpace(text[w[2] + 1])}

\* the URLs of a text: in each word, from its first "http://" or "https://"
\* that is not its last character, up to the end of the word
Urls(text) ==
    {u \in (1..Len(text)) \X (1..Len(text)) :
        \E w \in Words(text) :
            /\ u[2] = w[2]
            /\ u[1] \in w[1]..(w[2] - 1)
            /\ IsScheme(text[u[1]])
            /\ \A i \in w[1]..(u[1] - 1) : ~IsScheme(text[i])}

\* C18: for a message without media the spans after the header alternate
\* between plain text and link, each link's content and target are one
\* maximal match of the URL pattern, every match is a link, and the contents
\* of the spans joined are the text; the link of
\* "see https://example.com/a,b now" is "https://example.com/a,b".
C18_LinkRoundTrip ==
    fmt.called
    => LET body == Tail(fmt.spans)
           First(i) == Len(Joined(SubSeq(body, 1, i - 1))) + 1
           Span(i) == <<First(i), First(i) + Len(body[i].content) - 1>>
           links == {i \in DOMAIN body : body[i].link # NoLink}
       IN  /\ Head(fmt.spans).content = <<"header">>
           /\ Joined(body) = fmt.text
           /\ \A i \in 1..(Len(body) - 1) :
                 (i \in links) # (i + 1 \in links)
           /\ \A i \in links :
                 /\ body[i].link = body[i].content
                 /\ Span(i) \in Urls(fmt.text)
           /\ Cardinality(links) = Cardinality(Urls(fmt.text))
           /\ fmt.text = ExampleText
              => /\ Len(body) = 3
                 /\ body[2].link = <<"https://", "a", ",", "a">>

\* the example of the claim was formatted
C18_Witness ==
    /\ fmt.called
    /\ fmt.text = ExampleText
    /\ Len(fmt.spans) = 4
    /\ fmt.spans[3].link = <<"https://", "a", ",", "a">>

\* the job's step that updates the page of a group and marks the group
JobUpdates == run.job.pc = "update" /\ run'.job.ok_dates # run.job.ok_dates

\* C21: when the job has processed a date group successfully, the Messages
\* number of its daily page is the number the page held right before the
\* update plus the size of the group, and the status is Synced; a page just
\* created has the number 0 and the status Pending.
C21_CounterUpdate ==
    [][/\ JobUpdates
          => LET p == run.job.page
                 d == run.job.dates[run.job.g]
             IN  /\ pages'[p].count = pages[p].count + Cardinality(JobGroup(d))
                 /\ pages'[p].status = "Synced"
       /\ Len(pages') > Len(pages)
          => /\ Last(pages').count = 0
             /\ Last(pages').status = "Pending"]_vars

\* C22: the counter write of a run is the number that run read plus the size
\* of its group, with no test of what the page holds at the time of the
\* write; when two runs process the same daily page their reads and writes
\* can interleave so that the counter ends below the sum of the increments.
C22_BlindWrite ==
    [][\A r \in Runs :
          (run[r].pc = "update" /\ run'[r].pc # "update")
          => LET p == run[r].page
                 d == run[r].dates[run[r].g]
                 n == Len(GroupOf(run[r].unsynced, d))
             IN  pages'[p].count = run[r].current_count + n]_vars

\* both runs have finished, each has added its increment to the only daily
\* page, and the counter is smaller than the two increments together
C22_Witness ==
    /\ \A r \in Runs : run[r].pc = "idle" /\ run[r].result = "ok"
    /\ \A r \in Runs : run[r].ok_dates # {} /\ run[r].total_synced > 0
    /\ Len(pages) = 1
    /\ pages[1].count < run.job.total_synced + run.manual.total_synced

\* C23: at most one call of sync_messages_to_notion is in progress at any
\* time, so no unsynced message is fetched and appended by two runs.
C23_NoOverlap ==
    /\ Cardinality({r \in Runs : run[r].pc # "idle"}) <= 1
    /\ \A i \in DOMAIN messages :
          Cardinality({r \in Runs : run[r].pc # "idle"
                                      /\ i \in Range(run[r].unsynced)}) <= 1

\* C26: the messages_synced value of the SyncStatus a run writes is the number
\* of rows whose committed synced flag the run changed from false to true; a
\* run recorded with success false and messages_synced 0 committed no flag.
C26_AuditCount ==
    [][(JobReturned /\ Len(sync_log') > Len(sync_log))
       => Last(sync_log').messages_synced
             = Cardinality({i \in DOMAIN messages :
                              ~messages[i].synced /\ messages'[i].synced})]_vars

\* databases and pages created since the job's latest call started
NewDbs == (run.job.start_dbs + 1)..Len(dbs)

NewPages == (run.job.start_pages + 1)..Len(pages)

\* C27: one run creates at most one monthly database per month and at most
\* one daily page per date.
C27_OnePerRun ==
    /\ \A i, j \in NewDbs : dbs[i].title = dbs[j].title => i = j
    /\ \A p, q \in NewPages : pages[p].date = pages[q].date => p = q

\* C24: a backup run never replaces the bytes stored under a snapshot key
\* that existed before the run.
C24_NoOverwrite ==
    [][\A k \in DOMAIN objects \cap DOMAIN objects' :
          objects'[k] = objects[k] /\ contents'[k] = contents[k]]_vars

\* N of "keep the first N" for a tier
RetentionOf(t) ==
    IF t = "daily" THEN DAILY_RETENTION
    ELSE IF t = "weekly" THEN WEEKLY_RETENTION ELSE MONTHLY_RETENTION

\* the snapshots of the tier of the run's key that the store holds after the
\* upload and whose name sorts after the run's key
LaterOfTier ==
    {k \in OfTier(list_existing_backups(bk.before, TRUE), bk.key.tier) :
        KeyLess(bk.key, k)}

\* C25 as stated: the snapshot a run uploaded and verified is in the store
\* when the run has ended, whatever other keys the store holds.
C25_NewestKept == (bk.runs > 0 /\ bk.result) => bk.key \in DOMAIN objects

\* C25: the snapshot a run uploaded and verified is in the store when the
\* run has ended, provided fewer than N snapshots of its tier carry a later
\* date (N = 7 daily, 4 weekly, 3 monthly).
C25_NewestKeptUnlessOutdated ==
    (bk.runs > 0 /\ bk.result
        /\ Cardinality(LaterOfTier) < RetentionOf(bk.key.tier))
    => bk.key \in DOMAIN objects

C25_Witness ==
    /\ bk.runs > 0 /\ bk.result
    /\ LaterOfTier # {}
    /\ Cardinality(LaterOfTier) < RetentionOf(bk.key.tier)
    /\ \E k \in bk.deleted : k.tier = bk.key.tier
    /\ bk.key \in DOMAIN objects

\* C28: the tier in the key of an uploaded snapshot is the tier the tier
\* rule gives to the date in the same key.
C28_KeyTierAgree ==
    (bk.runs > 0 /\ bk.uploaded)
    => bk.key.tier = determine_backup_type(bk.key.date)

\* C29: the retention pass removes only keys that start with
\* "backups/backup_" and name a tier; every other object the store held
\* after the upload is still there with the same bytes, and the pass adds no
\* object.
C29_RetentionFrame ==
    bk.runs > 0 =>
       /\ DOMAIN objects \subseteq DOMAIN bk.before
       /\ \A k \in DOMAIN objects : objects[k] = bk.before[k]
       /\ \A k \in DOMAIN bk.before \ DOMAIN objects :
             k.prefix = "backups/backup_" /\ k.tier \in Tiers

C29_Witness ==
    /\ bk.runs > 0
    /\ "retention" \in Range(bk.steps)
    /\ bk.deleted # {}
    /\ ManualKey \in bk.listed
    /\ OtherKeys \cup {ManualKey} \subseteq DOMAIN objects

\* C30: the list of the restore tool is newest first, the "index" of every
\* entry is its position in the list, and the number the operator types
\* selects the snapshot displayed next to that number.
C30_IndexIsPosition ==
    /\ \A j \in DOMAIN rs.backups : rs.backups[j].index = j - 1
    /\ \A j \in 1..(Len(rs.backups) - 1) :
          KeyLess(rs.backups[j + 1].path, rs.backups[j].path)
    /\ rs.pc = "confirm" => rs.selected.index = ParseInt(rs.selection)

====
